---- MODULE Spec2Model ----
(***************************************************************************)
(* pynit: the Project handler (core/hendlers.py, class Project), the       *)
(* pipeline handler (class Process) and the helpers of core/methods.py     *)
(* (SystemMethods, ProjectMethods), as a state machine.                    *)
(*                                                                         *)
(* Python strings are sequences of one-character strings, so substring     *)
(* tests, regular-expression searches, zero padding and the byte-wise      *)
(* order of sort_values are computed character by character.               *)
(***************************************************************************)
EXTENDS Integers, Sequences, FiniteSets, TLC

VARIABLES
    fs,       \* the project tree on disk: [files, dirs], paths relative to the root
    prj,      \* the Project object the callers share
    heap,     \* the list objects that hold a Project's six filter slots, by reference
    proc,     \* the Process object built on prj (or NoProc)
    lastOp,   \* the operation that ran last, with its inputs
    ret,      \* what that operation returned
    err,      \* the exception it ended with ("" when it returned)
    errMsg,   \* the tokens the error message of that exception shows
    exited    \* TRUE once SystemMethods.raiseerror has called sys.exit()

vars == <<fs, prj, heap, proc, lastOp, ret, err, errMsg, exited>>

(***************************************************************************)
(* Bounds of the model.                                                    *)
(***************************************************************************)
MaxArgs == 2        \* positional tokens of one set_filters / query call
MaxSteps == 3       \* step folders of one pipeline that new names may add to
MaxRows == 3        \* rows of a table applying_filters is tried on

(***************************************************************************)
(* Strings.                                                                *)
(***************************************************************************)
\* The characters in use, in ASCII order: Code is a character's rank in it.
Alphabet ==
    << "&", "-", ".", "/",
       "0", "1", "2", "3", "4", "5", "6", "7", "8", "9",
       "A", "B", "D", "M", "P", "R", "X", "Y", "Z", "_",
       "a", "c", "d", "e", "f", "g", "h", "i", "k", "l", "m", "n", "o", "p",
       "r", "s", "t", "u", "x", "z", "|" >>

Code == [c \in {Alphabet[i] : i \in 1..Len(Alphabet)} |->
            CHOOSE i \in 1..Len(Alphabet) : Alphabet[i] = c]

Min(a, b) == IF a < b THEN a ELSE b

\* a < b for two Python 2 str values (byte-wise lexicographic order)
LtStr(a, b) ==
    \E i \in 1..(Min(Len(a), Len(b)) + 1) :
        /\ \A j \in 1..(i - 1) : a[j] = b[j]
        /\ \/ i > Len(a) /\ i <= Len(b)
           \/ i <= Len(a) /\ i <= Len(b) /\ Code[a[i]] < Code[b[i]]

\* sep.join(parts)
RECURSIVE Join(_, _)
Join(parts, sep) ==
    IF parts = <<>> THEN <<>>
    ELSE IF Len(parts) = 1 THEN parts[1]
    ELSE parts[1] \o sep \o Join(Tail(parts), sep)

\* `sub in s` for two strings
Contains(s, sub) ==
    \E i \in 0..(Len(s) - Len(sub)) :
        \A j \in 1..Len(sub) : s[i + j] = sub[j]

\* pat.split("|"): the alternatives of a regular expression
RECURSIVE SplitBar(_)
SplitBar(pat) ==
    IF \A i \in 1..Len(pat) : pat[i] # "|" THEN {pat}
    ELSE LET k == CHOOSE i \in 1..Len(pat) :
                      pat[i] = "|" /\ \A j \in 1..(i - 1) : pat[j] # "|"
         IN  {SubSeq(pat, 1, k - 1)} \cup SplitBar(SubSeq(pat, k + 1, Len(pat)))

\* re.search(pat, s) is not None, for patterns made of literal characters,
\* "." (any character) and "|" (alternation): what Series.str.contains does
RegexSearch(pat, s) ==
    \E alt \in SplitBar(pat) :
        \E i \in 0..(Len(s) - Len(alt)) :
            \A j \in 1..Len(alt) : alt[j] = "." \/ alt[j] = s[i + j]

\* str(n) for 0 <= n < 1000
Digit(d) == <<Alphabet[Code["0"] + d]>>

Str(n) ==
    IF n < 10 THEN Digit(n)
    ELSE IF n < 100 THEN Digit(n \div 10) \o Digit(n % 10)
    ELSE Digit(n \div 100) \o Digit((n \div 10) % 10) \o Digit(n % 10)

\* s.zfill(width)
RECURSIVE Zfill(_, _)
Zfill(s, width) == IF Len(s) >= width THEN s ELSE Zfill(<<"0">> \o s, width)

(***************************************************************************)
(* Python values: None, a list, and an attribute that was never assigned.  *)
(***************************************************************************)
None == [st |-> "none", v |-> <<>>]
Unset == [st |-> "unset", v |-> <<>>]
List(v) == [st |-> "list", v |-> v]

\* bool(x): None and the empty list are false
Truthy(x) == x.st = "list" /\ Len(x.v) > 0

\* `e in seq`
In(e, seq) == \E i \in 1..Len(seq) : seq[i] = e

(***************************************************************************)
(* Names on disk.  Reference(ds_ref, img_format) of core/objects.py gives  *)
(* the three data class folders and the image extensions.                  *)
(***************************************************************************)
sData == <<"D", "a", "t", "a">>
sProcessing == <<"P", "r", "o", "c", "e", "s", "s", "i", "n", "g">>
sResults == <<"R", "e", "s", "u", "l", "t", "s">>
sA == <<"A">>
sB == <<"B">>
sS1 == <<"s", "1">>
sS2 == <<"s", "2">>
sFunc == <<"f", "u", "n", "c">>
sAnat == <<"a", "n", "a", "t">>
sP == <<"P">>
sX == <<"X">>
sY == <<"Y">>
sXY == <<"X", "Y">>
sZ == <<"Z">>
sMask == <<"m", "a", "s", "k">>
sStep1 == <<"0", "0", "1", "_", "X">>
sStep2 == <<"0", "0", "2", "_", "Y">>
sChk == <<"c", "h", "k">>
fF == <<"f", ".", "n", "i", "i">>
fT == <<"t", ".", "n", "i", "i">>
fFmask == <<"f", "_", "m", "a", "s", "k", ".", "n", "i", "i">>
fTxt == <<"n", ".", "t", "x", "t">>
eNii == <<".", "n", "i", "i">>
eNiiGz == <<".", "n", "i", "i", ".", "g", "z">>
eTxt == <<".", "t", "x", "t">>

PrjPath == <<"/", "p">>                        \* project_path
ds_type == <<sData, sProcessing, sResults>>   \* Reference.ref_ds
img_ext == <<eNii, eNiiGz>>                   \* Reference.imgext
NA == <<"NaN">>                               \* a cell pandas left empty

(***************************************************************************)
(* The tree on disk.  A path is the sequence of its names below the        *)
(* project root; a file's last name is its filename.                       *)
(***************************************************************************)
\* all orders of a finite set
RECURSIVE Perms(_)
Perms(S) ==
    IF S = {} THEN {<<>>}
    ELSE UNION {{<<x>> \o p : p \in Perms(S \ {x})} : x \in S}

\* the files os.walk(os.path.join(path, ds_type[idx])) meets; a directory
\* without files gives none
FilesUnder(tree, idx) == {f \in tree.files : f[1] = ds_type[idx + 1]}

\* os.walk and os.listdir promise no order: every order of the files
Walks(tree, idx) == Perms(FilesUnder(tree, idx))

\* os.listdir(p) restricted to directories
SubDirs(tree, p) ==
    {d[Len(d)] : d \in {e \in tree.dirs :
                            Len(e) = Len(p) + 1 /\ SubSeq(e, 1, Len(p)) = p}}

\* SystemMethods.mkdir(*paths): os.mkdir of each path, every error swallowed
\* (the directory exists already, or its parent does not)
RECURSIVE mkdir(_, _)
mkdir(tree, paths) ==
    IF paths = <<>> THEN tree
    ELSE LET p == paths[1]
             ok == /\ p \notin tree.dirs
                   /\ p \notin tree.files
                   /\ (Len(p) = 1 \/ SubSeq(p, 1, Len(p) - 1) \in tree.dirs)
         IN  mkdir(IF ok THEN [tree EXCEPT !.dirs = @ \cup {p}] ELSE tree,
                   Tail(paths))

(***************************************************************************)
(* The DataFrame: its columns and its rows in order.  A row has a cell for *)
(* every column name the schemas know; NA where the frame has no value.    *)
(***************************************************************************)
ColNames == {"DataClass", "Subject", "Session", "DataType", "Pipeline",
             "Step", "Result", "Filename", "Abspath"}

EmptyDF == [cols |-> {}, rows |-> <<>>]     \* pd.DataFrame()

\* ProjectMethods.update_columns: the column name of each path depth
update_columns(idx, single_session) ==
    IF idx = 0
    THEN IF single_session
         THEN <<"DataClass", "Subject", "DataType", "Session">>
         ELSE <<"DataClass", "Subject", "Session", "DataType">>
    ELSE IF idx = 1
    THEN <<"DataClass", "Pipeline", "Step", "Subject", "Session">>
    ELSE IF idx = 2
    THEN <<"DataClass", "Pipeline", "Result", "Subject", "Session">>
    ELSE <<"DataClass">>

\* ProjectMethods.reorder_columns
reorder_columns(idx, single_session) ==
    IF idx = 0
    THEN IF single_session
         THEN {"Subject", "DataType", "Filename", "Abspath"}
         ELSE {"Subject", "Session", "DataType", "Filename", "Abspath"}
    ELSE IF idx = 1
    THEN IF single_session
         THEN {"Pipeline", "Step", "Subject", "Filename", "Abspath"}
         ELSE {"Pipeline", "Step", "Subject", "Session", "Filename", "Abspath"}
    ELSE IF single_session
         THEN {"Pipeline", "Result", "Subject", "Filename", "Abspath"}
         ELSE {"Pipeline", "Result", "Subject", "Session", "Filename", "Abspath"}

\* df[columns]: the frame cut down to these columns
SelectCols(df, columns) ==
    [cols |-> columns,
     rows |-> [i \in 1..Len(df.rows) |->
                  [c \in ColNames |-> IF c \in columns THEN df.rows[i][c] ELSE NA]]]

\* the rows at the positions in K, from position i on, in their order
RECURSIVE PickRows(_, _, _)
PickRows(rows, K, i) ==
    IF i > Len(rows) THEN <<>>
    ELSE (IF i \in K THEN <<rows[i]>> ELSE <<>>) \o PickRows(rows, K, i + 1)

\* the rows the mask keeps, the last of them first
SelectRows_reversed(rows, K) ==
    [i \in 1..Len(PickRows(rows, K, 1)) |->
        PickRows(rows, K, 1)[Len(PickRows(rows, K, 1)) + 1 - i]]

\* df[mask]: the rows at the positions the mask keeps, in their order
SelectRows(rows, K) == PickRows(rows, K, 1)

\* the positions of a sequence
Idx(rows) == 1..Len(rows)

\* one step of an insertion sort on Abspath
RECURSIVE InsertRow(_, _)
InsertRow(sorted, r) ==
    IF sorted = <<>> THEN <<r>>
    ELSE IF LtStr(r.Abspath, sorted[1].Abspath) THEN <<r>> \o sorted
    ELSE <<sorted[1]>> \o InsertRow(Tail(sorted), r)

\* the rows left in the order they were read in
unsorted_values(rows) == rows

\* df.sort_values('Abspath')
RECURSIVE sort_values(_)
sort_values(rows) ==
    IF rows = <<>> THEN <<>>
    ELSE InsertRow(sort_values(SubSeq(rows, 1, Len(rows) - 1)), rows[Len(rows)])

\* the depth of the deepest directory that holds a file
RECURSIVE MaxDepth(_)
MaxDepth(walk) ==
    IF walk = <<>> THEN 0
    ELSE LET d == Len(walk[1]) - 1
             m == MaxDepth(Tail(walk))
         IN  IF d > m THEN d ELSE m

\* ProjectMethods.parsing, on the files in the order os.walk gave them:
\* one row per file (its folder's names by depth, Filename, Abspath), the
\* session layout read off the number of columns, the columns renamed, and the
\* rows sorted on Abspath
parsing(walk, idx) ==
    LET depth == MaxDepth(walk)
        ncols == IF walk = <<>> THEN 0 ELSE depth + 2
        single_session == IF idx = 0 THEN ncols = 5 ELSE ncols = 6
        names == update_columns(idx, single_session)
        cols == {names[k] : k \in 1..Min(depth, Len(names))}
                    \cup (IF walk = <<>> THEN {} ELSE {"Filename", "Abspath"})
        Cell(f, c) ==
            IF c = "Filename" THEN f[Len(f)]
            ELSE IF c = "Abspath" THEN Join(<<PrjPath>> \o f, <<"/">>)
            ELSE IF \E k \in 1..Min(Len(f) - 1, Len(names)) : names[k] = c
                 THEN f[CHOOSE k \in 1..Min(Len(f) - 1, Len(names)) : names[k] = c]
                 ELSE NA
        rows == [i \in 1..Len(walk) |-> [c \in ColNames |-> Cell(walk[i], c)]]
        empty_prj == "Subject" \notin cols \/ Len(rows) = 0
    IN  IF empty_prj
        THEN [df |-> EmptyDF, single_session |-> single_session, empty_prj |-> TRUE]
        ELSE [df |-> [cols |-> cols, rows |-> sort_values(rows)],
              single_session |-> single_session, empty_prj |-> FALSE]

\* what parsing returns for each data class index, for every order os.walk
\* may deliver the files in
ParseOutcomes(tree) ==
    LET po == [i \in 0..2 |-> {parsing(w, i) : w \in Walks(tree, i)}]
    IN  {[i \in 0..2 |-> IF i = 0 THEN a ELSE IF i = 1 THEN b ELSE c] :
            a \in po[0], b \in po[1], c \in po[2]}

\* ProjectMethods.initial_filter: rows of the data class folders, whose Filename
\* the pattern "|".join(ext) is found in; the index renumbered
initial_filter(df, data_class, ext) ==
    LET byClass == IF Len(data_class) > 0
                   THEN SelectRows(df.rows, {i \in Idx(df.rows) :
                                       In(df.rows[i].DataClass, data_class)})
                   ELSE df.rows
    IN  [cols |-> df.cols,
         rows |-> IF Truthy(ext)
                  THEN SelectRows(byClass, {i \in Idx(byClass) :
                           RegexSearch(Join(ext.v, <<"|">>), byClass[i].Filename)})
                  ELSE byClass]

(***************************************************************************)
(* The Project object.  Its six filter slots live in a list object that    *)
(* the object holds by reference (copy.copy copies the reference, not the  *)
(* list); every other attribute is rebound, never changed in place.        *)
(***************************************************************************)
Refs == {"r0", "r1", "r2"}

FreeCell == [used |-> FALSE, slots |-> <<None, None, None, None, None, None>>]
NoFilters == [used |-> TRUE, slots |-> <<None, None, None, None, None, None>>]

\* the six slots of the object's filter list
Filters(o, h) == h[o.filters].slots

\* A running call: the object it runs on (o), the heap (h), the exception it
\* ended with (exc, "" while it runs), the tokens its message shows (msg),
\* and whether sys.exit() was reached (exit).
World(o, h) == [o |-> o, h |-> h, exc |-> "", msg |-> <<>>, exit |-> FALSE]

Raise(w, exception) == [w EXCEPT !.exc = exception]

\* SystemMethods.raiseerror: raises the exception, catches it, writes its
\* message to stderr and calls sys.exit()
raiseerror(w, exception, message) ==
    [w EXCEPT !.exc = exception, !.msg = message, !.exit = TRUE]

\* sorted(list(S)) for a set of strings
RECURSIVE SortedStrs(_)
SortedStrs(S) ==
    IF S = {} THEN <<>>
    ELSE LET m == CHOOSE x \in S : \A y \in S \ {x} : LtStr(x, y)
         IN  <<m>> \o SortedStrs(S \ {m})

\* sorted(list(set(df.<c>.tolist())))
Uniq(df, c) == SortedStrs({df.rows[i][c] : i \in 1..Len(df.rows)})

\* Project.__update: the derived lists, from the frame as it is now.  A
\* column the frame lacks fails the attribute access; the except clause turns
\* that into raiseerror with the lists set so far
update_lists(w, o, df) ==
    LET subjects == List(Uniq(df, "Subject"))
        sessions == IF o.single_session THEN None ELSE List(Uniq(df, "Session"))
        need3 == IF o.dc_idx = 0 THEN {"DataType"}
                 ELSE IF o.dc_idx = 1 THEN {"Pipeline", "Step"}
                 ELSE {"Pipeline", "Result"}
        failed(obj) == raiseerror([w EXCEPT !.o = obj], "UpdateAttributesFailed", <<>>)
    IN  IF Len(df.rows) > 0
        THEN IF "Subject" \notin df.cols THEN failed(o)
             ELSE IF ~o.single_session /\ "Session" \notin df.cols
             THEN failed([o EXCEPT !.subjects = subjects])
             ELSE IF ~(need3 \subseteq df.cols)
             THEN failed([o EXCEPT !.subjects = subjects, !.sessions = sessions])
             ELSE [w EXCEPT !.o =
                     [o EXCEPT !.subjects = subjects,
                               !.sessions = sessions,
                               !.dtypes = IF o.dc_idx = 0
                                          THEN List(Uniq(df, "DataType")) ELSE None,
                               !.pipelines = IF o.dc_idx = 0 THEN None
                                             ELSE List(Uniq(df, "Pipeline")),
                               !.steps = IF o.dc_idx = 1
                                         THEN List(Uniq(df, "Step")) ELSE None,
                               !.results = IF o.dc_idx \in {0, 1} THEN None
                                           ELSE List(Uniq(df, "Result"))]]
        ELSE [w EXCEPT !.o = [o EXCEPT !.subjects = None, !.sessions = None,
                                       !.dtypes = None, !.pipelines = None,
                                       !.steps = None, !.results = None]]

update(w) == update_lists(w, w.o, w.o.df)

\* a call of __update that follows a step which may have raised
then_update(w) == IF w.exc # "" THEN w ELSE update(w)

\* the end of scan_prj on a project with files: the lists are updated and the
\* project is marked as not empty
scan_prj_updated(u) ==
    IF u.exc # "" THEN u ELSE [u EXCEPT !.o.empty_project = FALSE]

\* scan_prj after initial_filter gave df2: the columns are put in order
scan_prj_filtered(w, df2, order) ==
    IF Len(df2.rows) > 0 /\ ~(order \subseteq df2.cols)
    THEN Raise([w EXCEPT !.o.df = df2], "KeyError")
    ELSE scan_prj_updated(
            update([w EXCEPT !.o.df = IF Len(df2.rows) > 0
                                      THEN SelectCols(df2, order) ELSE df2]))

\* the session layout is kept from the scan before
scan_prj_parsed_carried(w, p) ==
    IF ~p.empty_prj
    THEN scan_prj_filtered(w, initial_filter(p.df, ds_type, w.o.ext_filter),
                           reorder_columns(w.o.dc_idx, w.o.single_session))
    ELSE [w EXCEPT !.o.df = p.df, !.o.empty_project = TRUE]

\* scan_prj after parsing gave p
scan_prj_parsed(w, p) ==
    IF ~p.empty_prj
    THEN scan_prj_filtered([w EXCEPT !.o.single_session = p.single_session],
                           initial_filter(p.df, ds_type, w.o.ext_filter),
                           reorder_columns(w.o.dc_idx, p.single_session))
    ELSE [w EXCEPT !.o.df = p.df, !.o.single_session = p.single_session,
                   !.o.empty_project = TRUE]

\* a scan that keeps the table when it has rows
scan_prj_kept(w, pr) ==
    IF Len(w.o.df.rows) > 0 THEN w ELSE scan_prj_parsed(w, pr[w.o.dc_idx])

\* Project.scan_prj, pr[i] being what parsing returns for data class i
scan_prj(w, pr) == scan_prj_parsed(w, pr[w.o.dc_idx])

\* no new list: the object keeps the list it has
SameList(w, live) == w

\* [None] * 6: a new list object, at an address no live object holds
NewList(w, live) ==
    LET r == CHOOSE x \in Refs : x \notin live \cup {w.o.filters}
    IN  [w EXCEPT !.h[r] = NoFilters, !.o.filters = r]

\* a reset that clears the slots and does not scan the project again
reset_filters_noscan(w, ext, live, pr) ==
    then_update(
        [NewList(w, live) EXCEPT
            !.o.ext_ = IF ~Truthy(ext) THEN List(img_ext) ELSE ext])

\* Project.reset_filters(ext)
reset_filters(w, ext, live, pr) ==
    then_update(
        scan_prj([NewList(w, live) EXCEPT
                     !.o.ext_ = IF ~Truthy(ext) THEN List(img_ext) ELSE ext], pr))

\* the selector is assigned before idx is looked at
set_dataclass_unchecked(w, idx, live, pr) ==
    IF idx \in 0..2
    THEN then_update(reset_filters([w EXCEPT !.o.dc_idx = idx], None, live, pr))
    ELSE raiseerror([w EXCEPT !.o.dc_idx = idx], "InputDataclassError", <<>>)

\* Project.dataclass = idx
set_dataclass(w, idx, live, pr) ==
    IF idx \in 0..2
    THEN then_update(reset_filters([w EXCEPT !.o.dc_idx = idx], None, live, pr))
    ELSE raiseerror(w, "InputDataclassError", <<>>)

\* Project.ext = value; a value is [t |-> its type, v |-> its strings]
set_ext(w, value) ==
    IF value.t = "str" THEN [w EXCEPT !.o.ext_filter = List(value.v)]
    ELSE IF value.t = "list" THEN [w EXCEPT !.o.ext_filter = List(value.v)]
    ELSE IF value.t = "NoneType" THEN [w EXCEPT !.o.ext_filter = None]
    ELSE raiseerror(w, "InputTypeError", <<>>)

\* df[df.<col> == slot[0]]: the rows that match the first value of the slot
filter_eq_first(rows, slot, col, used) ==
    IF used THEN SelectRows(rows, {i \in Idx(rows) : rows[i][col] = slot.v[1]})
    ELSE rows

\* df[df.<col>.isin(slot)] when the slot is used
filter_isin(rows, slot, col, used) ==
    IF used THEN SelectRows(rows, {i \in Idx(rows) : In(rows[i][col], slot.v)})
    ELSE rows

\* the tags put one after the other, with nothing between them
filter_file_tag_concat(rows, slot) ==
    IF slot # None
    THEN SelectRows(rows, {i \in Idx(rows) :
                      RegexSearch(Join(slot.v, <<>>), rows[i].Filename)})
    ELSE rows

\* df[df.Filename.str.contains("&".join(slot))] when the slot is not None
filter_file_tag(rows, slot) ==
    IF slot # None
    THEN SelectRows(rows, {i \in Idx(rows) :
                      RegexSearch(Join(slot.v, <<"&">>), rows[i].Filename)})
    ELSE rows

\* a filter that drops only the first row the pattern is found in
filter_ignore_first(rows, slot) ==
    IF slot # None
    THEN SelectRows(rows, {i \in Idx(rows) :
            \/ ~RegexSearch(Join(slot.v, <<"&">>), rows[i].Filename)
            \/ \E j \in 1..(i - 1) :
                  RegexSearch(Join(slot.v, <<"&">>), rows[j].Filename)})
    ELSE rows

\* df[~df.Filename.str.contains("&".join(slot))] when the slot is not None
filter_ignore(rows, slot) ==
    IF slot # None
    THEN SelectRows(rows, {i \in Idx(rows) :
                      ~RegexSearch(Join(slot.v, <<"&">>), rows[i].Filename)})
    ELSE rows

\* Project.applying_filters(df): the frame narrowed slot by slot.  Slots 0-3
\* keep the rows whose column value is in the slot's list; slots 4 and 5
\* search each Filename for the pattern "&".join(slot)
applying_filters(o, h, df) ==
    LET f == Filters(o, h)
        c2 == IF o.dc_idx = 0 THEN "DataType" ELSE "Pipeline"
        c3 == IF o.dc_idx = 1 THEN "Step" ELSE "Result"
        missing == \/ Truthy(f[1]) /\ "Subject" \notin df.cols
                   \/ Truthy(f[2]) /\ "Session" \notin df.cols
                   \/ Truthy(f[3]) /\ c2 \notin df.cols
                   \/ Truthy(f[4]) /\ o.dc_idx # 0 /\ c3 \notin df.cols
    IN  IF Len(df.rows) > 0
        THEN IF missing THEN [df |-> df, exc |-> "AttributeError"]
             ELSE [df |-> [cols |-> df.cols,
                           rows |->
                             filter_ignore(
                               filter_file_tag(
                                 filter_isin(
                                   filter_isin(
                                     filter_isin(
                                       filter_isin(df.rows, f[1], "Subject",
                                                   Truthy(f[1])),
                                       f[2], "Session", Truthy(f[2])),
                                     f[3], c2, Truthy(f[3])),
                                   f[4], c3, Truthy(f[4]) /\ o.dc_idx # 0),
                                 f[5]),
                               f[6])],
                   exc |-> ""]
        ELSE [df |-> df, exc |-> ""]

\* residuals.remove(e): the list without the first e
RECURSIVE RemoveFirst(_, _)
RemoveFirst(seq, e) ==
    IF seq = <<>> THEN <<>>
    ELSE IF seq[1] = e THEN Tail(seq)
    ELSE <<seq[1]>> \o RemoveFirst(Tail(seq), e)

RECURSIVE RemoveEach(_, _)
RemoveEach(seq, es) ==
    IF es = <<>> THEN seq
    ELSE RemoveEach(IF In(es[1], seq) THEN RemoveFirst(seq, es[1]) ELSE seq,
                    Tail(es))

\* [arg for arg in args if arg in lists]
RECURSIVE Matching(_, _)
Matching(args, lists) ==
    IF args = <<>> THEN <<>>
    ELSE (IF In(args[1], lists) THEN <<args[1]>> ELSE <<>>)
         \o Matching(Tail(args), lists)

\* [old_step for old_step in executed_steps if step in old_step]
RECURSIVE Matching_sub(_, _)
Matching_sub(executed_steps, step) ==
    IF executed_steps = <<>> THEN <<>>
    ELSE (IF Contains(executed_steps[1], step) THEN <<executed_steps[1]>> ELSE <<>>)
         \o Matching_sub(Tail(executed_steps), step)

\* only the tokens no earlier vocabulary took are looked up
check_arguments_exclusive(args, residuals, lists) ==
    LET filter == Matching(residuals, lists)
    IN  [filter |-> filter, residuals |-> RemoveEach(residuals, filter)]

\* ProjectMethods.check_arguments(args, residuals, lists)
check_arguments(args, residuals, lists) ==
    LET filter == Matching(args, lists)
    IN  [filter |-> filter, residuals |-> RemoveEach(residuals, filter)]

\* a slot that found no token is left None
Extended_nonempty(slot, found) ==
    IF Truthy(slot) THEN List(slot.v \o found)
    ELSE IF found = <<>> THEN None ELSE List(found)

\* if self.__filters[k]: self.__filters[k].extend(found)
\* else: self.__filters[k] = found[:]
Extended(slot, found) ==
    IF Truthy(slot) THEN List(slot.v \o found) ELSE List(found)

\* kwargs.keys(): the list of the option names, which a for statement
\* iterates
kwargs_keys_list(kwargs) ==
    [iterable |-> TRUE,
     items |-> SelectRows(<<"ext", "file_tag", "ignore", "keep">>,
                          {i \in 1..4 : <<"ext", "file_tag", "ignore", "keep">>[i]
                                            \in DOMAIN kwargs})]

\* `kwargs.keys` as set_filters writes it: the bound method, which the for
\* statement cannot iterate; items is the order a list of keys would come in
kwargs_keys(kwargs) == [iterable |-> FALSE, items |-> <<>>]

\* a message formatted with the residuals instead
wrong_filter_residuals(args, residuals) == residuals

\* what the InputValueError message shows: 'Wrong filter input:{args}' is
\* formatted with args, the positional tuple as the caller gave it
wrong_filter_input(args, residuals) == args

\* the part of Project.set_filters that places the positional tokens
\* (lines 246-332): each vocabulary in turn takes the tokens it holds
place_args(w, args) ==
    LET o == w.o
        f == Filters(o, w.h)
        bySubj == check_arguments(args, args, o.subjects.v)
        bySess == check_arguments(args, bySubj.residuals, o.sessions.v)
        multi == Truthy(o.subjects) /\ ~o.single_session
        s0 == IF Truthy(o.subjects) THEN Extended(f[1], bySubj.filter) ELSE None
        s1 == IF multi THEN Extended(f[2], bySess.filter) ELSE None
        res1 == IF multi THEN bySess.residuals
                ELSE IF Truthy(o.subjects) THEN bySubj.residuals ELSE args
        voc2 == IF o.dc_idx = 0 THEN o.dtypes ELSE o.pipelines
        voc3 == IF o.dc_idx = 1 THEN o.steps ELSE o.results
        by2 == check_arguments(args, res1, voc2.v)
        res2 == IF Truthy(voc2) THEN by2.residuals ELSE res1
        by3 == check_arguments(args, res2, voc3.v)
        s2 == IF Truthy(voc2) THEN Extended(f[3], by2.filter) ELSE None
        s3 == IF o.dc_idx # 0 /\ Truthy(voc3) THEN Extended(f[4], by3.filter)
              ELSE None
        res3 == IF o.dc_idx # 0 /\ Truthy(voc3) THEN by3.residuals ELSE res2
        unset == o.subjects.st = "unset"     \* no such attribute yet
        w1 == [w EXCEPT !.h[o.filters].slots = <<s0, s1, s2, s3, f[5], f[6]>>]
    IN  IF unset THEN Raise(w, "AttributeError")
        ELSE IF multi /\ o.sessions.st # "list" THEN Raise(w, "TypeError")
        ELSE IF Len(res3) > 0
        THEN raiseerror(w1, "InputValueError", wrong_filter_input(args, res3))
        ELSE w1

\* the body of the loop over the keyword options (lines 216-242), for the
\* keys in the order given
RECURSIVE kwargs_loop(_, _, _, _, _)
kwargs_loop(w, keys, kwargs, live, pr) ==
    IF keys = <<>> \/ w.exc # "" THEN w
    ELSE LET key == keys[1]
             val == kwargs[key]
             o == w.o
             slot == IF key = "file_tag" THEN 5 ELSE 6
             w1 == IF key = "ext" THEN [w EXCEPT !.o.ext_ = List(val.v)]
                   ELSE IF key = "keep"
                   THEN IF val.b THEN update(w)
                        ELSE reset_filters(w, o.ext_filter, live, pr)
                   ELSE IF key \in {"file_tag", "ignore"}
                   THEN IF val.t \in {"str", "list"}
                        THEN [w EXCEPT !.h[o.filters].slots[slot] = List(val.v)]
                        ELSE raiseerror(w, "InputTypeError", <<>>)
                   ELSE raiseerror(w, "KeywordError", <<>>)
         IN  kwargs_loop(w1, Tail(keys), kwargs, live, pr)

\* set_filters, lines 213-245: the keyword options, or the reset when none
\* is given
set_filters_kwargs(w, keys, kwargs, live, pr) ==
    IF DOMAIN kwargs # {}
    THEN IF keys.iterable THEN kwargs_loop(w, keys.items, kwargs, live, pr)
         ELSE Raise(w, "TypeError")
    ELSE reset_filters(w, w.o.ext_filter, live, pr)

\* set_filters, lines 246-332: the positional tokens, when there are any
set_filters_args(w, args) ==
    IF w.exc = "" /\ Len(args) > 0 THEN place_args(w, args) ELSE w

\* set_filters, its last lines: the narrowed frame is stored and __update runs
set_filters_update(w, a) ==
    IF a.exc # "" THEN Raise(w, a.exc) ELSE update([w EXCEPT !.o.df = a.df])

set_filters_apply(w) ==
    IF w.exc # "" THEN w
    ELSE set_filters_update(w, applying_filters(w.o, w.h, w.o.df))

\* Project.set_filters(*args, **kwargs); kwargs is a function from the option
\* names given to their values
set_filters(w, args, kwargs, live, pr) ==
    set_filters_apply(
        set_filters_args(
            set_filters_kwargs(w, kwargs_keys(kwargs), kwargs, live, pr), args))

\* __call__ after the copy was switched to the data class asked for
call_filtered(w, args, kwargs, live, pr) ==
    IF w.exc # "" THEN w ELSE set_filters(w, args, kwargs, live, pr)

\* Project.__call__(dc_id, *args, **kwargs): the copy, switched and filtered.
\* The result carries the copy (o) and the heap both objects use.
call(self, h, dc_id, args, kwargs, pr) ==
    call_filtered(IF self.dc_idx # dc_id
                  THEN set_dataclass(World(self, h), dc_id, {self.filters}, pr)
                  ELSE World(self, h),
                  args, kwargs, {self.filters}, pr)

\* an iteration that does not look at the empty-project flag
iter_unchecked(o) == [exc |-> "", rows |-> o.df.rows]

\* Project.__iter__: the (position, row) pairs of the frame
iter(o) ==
    IF o.empty_project THEN [exc |-> "EmptyProject", rows |-> <<>>]
    ELSE [exc |-> "", rows |-> o.df.rows]

\* Project.__len__
len(o) == IF o.empty_project THEN 0 ELSE Len(o.df.rows)

\* Project.__getitem__(index): None, the row at the label, or KeyError
getitem(o, index) ==
    IF o.empty_project THEN [exc |-> "", rows |-> <<>>]
    ELSE IF index + 1 \in 1..Len(o.df.rows)
    THEN [exc |-> "", rows |-> <<o.df.rows[index + 1]>>]
    ELSE [exc |-> "KeyError", rows |-> <<>>]

\* the properties subjects, sessions, dtypes, pipelines, steps and results:
\* `return self.__<name>`, an AttributeError when nothing assigned it yet
getattr_derived(o, name) ==
    IF o[name].st = "unset" THEN [exc |-> "AttributeError", val |-> None]
    ELSE [exc |-> "", val |-> o[name]]

\* Project.__init__: the defaults, then the first scan; any exception of
\* the scan becomes raiseerror(ProjectScanFailure)
NewObject ==
    [dc_idx |-> 0, ext_filter |-> List(img_ext), ext_ |-> Unset,
     filters |-> "r0", df |-> EmptyDF,
     single_session |-> FALSE, empty_project |-> FALSE,
     subjects |-> Unset, sessions |-> Unset, dtypes |-> Unset,
     pipelines |-> Unset, steps |-> Unset, results |-> Unset]

NewHeap == [r \in Refs |-> IF r = "r0" THEN NoFilters ELSE FreeCell]

init_scanned(w) ==
    IF w.exc # "" THEN raiseerror(w, "ProjectScanFailure", <<>>) ELSE w

init(pr) == init_scanned(scan_prj(World(NewObject, NewHeap), pr))

(***************************************************************************)
(* The Process object and the step folders.                                *)
(***************************************************************************)
NoProc == [made |-> FALSE, pipeline_ |-> <<>>, subjects_ |-> None, sessions_ |-> None]

\* the attributes a Process instance and a Project instance answer to
ProcessAttrs == {"_subjects", "_sessions", "_prjobj", "_pipeline",
                 "subjects", "sessions"}
ProjectAttrs == {"path", "ds_type", "img_ext", "single_session", "df",
                 "dataclass", "subjects", "sessions", "dtypes", "pipelines",
                 "steps", "results", "filters", "summary", "ext"}

\* a numbering by the count of the folders, without the one added
get_step_name_count(prjobj, step, executed_steps) ==
    IF ~({"path", "ds_type", "pipeline"} \subseteq prjobj.attrs)
    THEN [exc |-> "AttributeError", name |-> <<>>]
    ELSE IF Len(executed_steps) > 0 /\ Len(Matching_sub(executed_steps, step)) > 0
    THEN [exc |-> "", name |-> Matching_sub(executed_steps, step)[1]]
    ELSE [exc |-> "",
          name |-> Join(<<Zfill(Str(Len(executed_steps)), 3), step>>, <<"_">>)]

\* ProjectMethods.get_step_name(prjobj, step), executed_steps being the
\* folders os.listdir(pipeline_path) gives, in the order it gives them
get_step_name(prjobj, step, executed_steps) ==
    LET overlapped == Matching_sub(executed_steps, step)
    IN  IF ~({"path", "ds_type", "pipeline"} \subseteq prjobj.attrs)
        THEN [exc |-> "AttributeError", name |-> <<>>]
        ELSE IF Len(executed_steps) > 0
        THEN IF Len(overlapped) > 0
             THEN [exc |-> "", name |-> overlapped[1]]
             ELSE [exc |-> "",
                   name |-> Join(<<Zfill(Str(Len(executed_steps) + 1), 3), step>>,
                                 <<"_">>)]
        ELSE [exc |-> "", name |-> Join(<<Zfill(Str(1), 3), step>>, <<"_">>)]

\* os.path.join(*parts) as a path below the project root: an empty last
\* part names the folder itself
RECURSIVE PathJoin(_)
PathJoin(parts) ==
    IF parts = <<>> THEN <<>>
    ELSE (IF parts[1] # <<>> THEN <<parts[1]>> ELSE <<>>) \o PathJoin(Tail(parts))

\* the object init_step hands to get_step_name: the Process itself
ProcessAsPrjobj(p) ==
    [attrs |-> ProcessAttrs, path |-> PrjPath, pipeline |-> p.pipeline_]

\* the orders os.listdir(pipeline_path) may give the step folders in; the
\* path is only built when prjobj has the attributes it is built from
ListDirOrders(tree, prjobj) ==
    IF {"path", "ds_type", "pipeline"} \subseteq prjobj.attrs
    THEN Perms(SubDirs(tree, PathJoin(<<ds_type[2], prjobj.pipeline>>)))
    ELSE {<<>>}

\* sorted(prjobj.subjects[:]) and sorted(prjobj.sessions[:])
SortedList(x) == List(SortedStrs({x.v[i] : i \in 1..Len(x.v)}))

\* Process.__init__ after prjobj.reset_filters(): the lists are copied,
\* initiate_pipeline makes the pipeline folder and scans the project again
new_process_reset(w, tree, pipeline, pr) ==
    IF w.exc # ""
    THEN [w |-> w, tree |-> tree, proc |-> NoProc]
    ELSE [w |-> scan_prj(w, pr),
          tree |-> mkdir(tree, <<PathJoin(<<ds_type[2], pipeline>>)>>),
          proc |-> [made |-> TRUE, pipeline_ |-> pipeline,
                    subjects_ |-> IF Truthy(w.o.subjects)
                                  THEN SortedList(w.o.subjects) ELSE None,
                    sessions_ |-> IF Truthy(w.o.subjects) /\ ~w.o.single_session
                                  THEN SortedList(w.o.sessions) ELSE None]]

\* the filters of the Project are left as the caller set them
new_process_noreset(o, h, tree, pipeline, pr) ==
    new_process_reset(World(o, h), tree, pipeline, pr)

\* Process.__init__(prjobj, pipeline) with initiate_pipeline: the result
\* carries the Project (w), the tree and the new Process
new_process(o, h, tree, pipeline, pr) ==
    new_process_reset(reset_filters(World(o, h), None, {}, pr), tree, pipeline, pr)

\* init_step after get_step_name gave g
init_step_named(w, g, steppath, tree, pr) ==
    IF g.exc # ""
    THEN [w |-> Raise(w, g.exc), tree |-> tree, path |-> <<>>]
    ELSE [w |-> scan_prj(w, pr), tree |-> mkdir(tree, <<steppath>>),
          path |-> steppath]

init_step_path(p, g) == PathJoin(<<ds_type[2], p.pipeline_, g.name>>)

init_step_get(w, g, p, tree, pr) ==
    init_step_named(w, g, init_step_path(p, g), tree, pr)

\* Process.init_step(stepname)
init_step(p, o, h, tree, stepname, executed_steps, pr) ==
    IF p.pipeline_ # <<>>
    THEN init_step_get(World(o, h),
                       get_step_name(ProcessAsPrjobj(p), stepname, executed_steps),
                       p, tree, pr)
    ELSE [w |-> Raise(World(o, h), "PipelineNotSet"), tree |-> tree, path |-> <<>>]

\* Process.final_step(title): reads self._prjobj.pipeline
final_step(p, o, h, tree, title, pr) ==
    IF "pipeline" \notin ProjectAttrs
    THEN [w |-> Raise(World(o, h), "AttributeError"), tree |-> tree, path |-> <<>>]
    ELSE [w |-> scan_prj(World(o, h), pr),
          tree |-> mkdir(tree, <<PathJoin(<<ds_type[3], p.pipeline_>>),
                                 PathJoin(<<ds_type[3], p.pipeline_, title>>)>>),
          path |-> PathJoin(<<ds_type[3], p.pipeline_, title>>)]

(***************************************************************************)
(* The projects the model starts from, and the inputs the callers give.    *)
(***************************************************************************)
\* every folder on the way to a file, and the three data class folders that
\* ProjectMethods.mk_main_folder makes
DirsOf(files) ==
    {<<ds_type[i]>> : i \in 1..3}
        \cup UNION {{SubSeq(f, 1, k) : k \in 1..(Len(f) - 1)} : f \in files}

Tree(files) == [files |-> files, dirs |-> DirsOf(files)]

\* no file at all
EmptyFiles == {}

\* <Subject>/<DataType>/<file>, with one pipeline already run
SingleFiles ==
    { <<sData, sA, sFunc, fF>>, <<sData, sA, sAnat, fT>>,
      <<sData, sB, sFunc, fF>>, <<sData, sB, sFunc, fTxt>>,
      <<sProcessing, sP, sStep1, sA, fF>>, <<sProcessing, sP, sStep2, sB, fF>>,
      <<sResults, sP, sChk, sA, fF>> }

\* <Subject>/<Session>/<DataType>/<file>
MultiFiles ==
    { <<sData, sA, sS1, sFunc, fF>>, <<sData, sA, sS2, sFunc, fFmask>>,
      <<sData, sB, sS1, sAnat, fT>> }

Trees == {Tree(EmptyFiles), Tree(SingleFiles), Tree(MultiFiles)}

\* the positional tokens a caller passes under data class idx, to a project
\* it knows to have sessions or not: names of the trees above and one name,
\* Z, that no tree holds
Tokens(idx, single_session) ==
    IF idx = 0 THEN IF single_session THEN {sA, sB, sFunc, sZ}
                    ELSE {sA, sS1, sFunc, sZ}
    ELSE IF idx = 1 THEN {sA, sP, sStep1, sZ}
    ELSE IF idx = 2 THEN {sChk, sZ}
    ELSE {sA}

RECURSIVE SeqsUpTo(_, _)
SeqsUpTo(S, n) ==
    IF n = 0 THEN {<<>>}
    ELSE LET shorter == SeqsUpTo(S, n - 1)
         IN  shorter \cup {<<x>> \o q : x \in S, q \in {t \in shorter : Len(t) = n - 1}}

ArgLists(idx, single_session) == SeqsUpTo(Tokens(idx, single_session), MaxArgs)

\* a Python value given as an option or to the ext setter
StrVal(x) == [t |-> "str", v |-> <<x>>, b |-> TRUE]
ListVal(xs) == [t |-> "list", v |-> xs, b |-> Len(xs) > 0]
BoolVal(b) == [t |-> "bool", v |-> <<>>, b |-> b]
NoneVal == [t |-> "NoneType", v |-> <<>>, b |-> FALSE]
IntVal == [t |-> "int", v |-> <<>>, b |-> TRUE]

\* the keyword options a caller passes; <<>> is no option
NoKwargs == <<>>
KwargsGiven ==
    { [keep |-> BoolVal(TRUE)],
      [file_tag |-> StrVal(sMask)],
      [ignore |-> StrVal(sMask), keep |-> BoolVal(TRUE)],
      [file_tag |-> ListVal(<<sMask>>)],
      [ignore |-> ListVal(<<sMask>>)],
      [file_tag |-> ListVal(<<sMask>>), ignore |-> ListVal(<<sMask>>)],
      [file_tag |-> ListVal(<<sMask>>), keep |-> BoolVal(TRUE)] }

\* (args, kwargs) of a set_filters or query call under data class idx
CallInputs(idx, single_session) ==
    {<<a, NoKwargs>> : a \in ArgLists(idx, single_session)}
        \cup {<<<<>>, k>> : k \in KwargsGiven}

ExtValues == {StrVal(eTxt), IntVal}
Pipelines == {sP, <<>>}
StepNames == {sX, sY, sXY, sZ, <<"0">>}

(***************************************************************************)
(* The state machine.                                                      *)
(***************************************************************************)
Op(op, idx, args, kwargs) == [op |-> op, idx |-> idx, args |-> args, kwargs |-> kwargs]

NoRet ==
    [kind |-> "none", view |-> NewObject, rows |-> <<>>, n |-> 0, path |-> <<>>,
     val |-> None]

\* the heap with the Project's list at r0, the returned view's list at r1
\* when it is another list, and nothing else
Collect(h, o, hasView, view) ==
    [r \in Refs |->
        IF r = "r0" THEN h[o.filters]
        ELSE IF r = "r1" /\ hasView /\ view.filters # o.filters THEN h[view.filters]
        ELSE FreeCell]

\* A run is a sequence of calls that change the Project, ended by a read, a
\* query, an exception or sys.exit(): the next call starts only after a call
\* that returned and may have changed the Project.
DerivedNames == {"subjects", "sessions", "dtypes", "pipelines", "steps", "results"}
ReadOps == {"__call__", "__iter__", "__len__", "__getitem__"} \cup DerivedNames
Ready == ~exited /\ err = "" /\ lastOp.op \notin ReadOps

\* a call on the Project has ended in world w
Ended(w, op, result) ==
    /\ prj' = [w.o EXCEPT !.filters = "r0"]
    /\ heap' = Collect(w.h, w.o, FALSE, w.o)
    /\ lastOp' = op
    /\ ret' = IF w.exc = "" THEN result ELSE NoRet
    /\ err' = w.exc
    /\ errMsg' = w.msg
    /\ exited' = w.exit

\* the constructor has ended in world w
Constructed(w) ==
    /\ prj = w.o
    /\ heap = w.h
    /\ err = w.exc
    /\ errMsg = w.msg
    /\ exited = w.exit

Init ==
    /\ fs \in Trees
    /\ \E pr \in ParseOutcomes(fs) : Constructed(init(pr))
    /\ proc = NoProc
    /\ lastOp = Op("__init__", 0, <<>>, NoKwargs)
    /\ ret = NoRet

\* prj.dataclass = idx
SetDataclass ==
    /\ Ready
    /\ \E pr \in ParseOutcomes(fs), idx \in 0..3 :
          Ended(set_dataclass(World(prj, heap), idx, {}, pr),
                Op("dataclass", idx, <<>>, NoKwargs), NoRet)
    /\ UNCHANGED <<fs, proc>>

\* prj.reset_filters(ext)
ResetFilters ==
    /\ Ready
    /\ \E pr \in ParseOutcomes(fs), ext \in {None} :
          Ended(reset_filters(World(prj, heap), ext, {}, pr),
                Op("reset_filters", 0, ext.v, NoKwargs), NoRet)
    /\ UNCHANGED <<fs, proc>>

\* prj.scan_prj()
ScanPrj ==
    /\ Ready
    /\ \E pr \in ParseOutcomes(fs) :
          Ended(scan_prj(World(prj, heap), pr),
                Op("scan_prj", 0, <<>>, NoKwargs), NoRet)
    /\ UNCHANGED <<fs, proc>>

\* prj.ext = value
SetExt ==
    /\ Ready
    /\ \E value \in ExtValues :
          Ended(set_ext(World(prj, heap), value),
                Op("ext", 0, <<value.t>>, NoKwargs), NoRet)
    /\ UNCHANGED <<fs, proc>>

\* prj.set_filters(*args, **kwargs)
SetFilters ==
    /\ Ready
    /\ \E pr \in ParseOutcomes(fs), in \in CallInputs(prj.dc_idx, prj.single_session) :
          Ended(set_filters(World(prj, heap), in[1], in[2], {}, pr),
                Op("set_filters", 0, in[1], in[2]), NoRet)
    /\ UNCHANGED <<fs, proc>>

\* a query has ended in world w, whose object is the view it returns
Answered(w, op) ==
    /\ heap' = Collect(w.h, prj, w.exc = "", w.o)
    /\ ret' = IF w.exc = ""
              THEN [NoRet EXCEPT !.kind = "view",
                       !.view = [w.o EXCEPT !.filters =
                                    IF w.o.filters = prj.filters THEN "r0"
                                    ELSE "r1"]]
              ELSE NoRet
    /\ lastOp' = op
    /\ err' = w.exc
    /\ errMsg' = w.msg
    /\ exited' = w.exit

\* view = prj(dc_id, *args, **kwargs)
Query ==
    /\ Ready
    /\ \E pr \in ParseOutcomes(fs), dc_id \in 0..3 :
        \E in \in CallInputs(dc_id, prj.single_session) :
          Answered(call(prj, heap, dc_id, in[1], in[2], pr),
                   Op("__call__", dc_id, in[1], in[2]))
    /\ UNCHANGED <<fs, prj, proc>>

\* for i, row in prj: ...
Iterate ==
    /\ Ready
    /\ LET r == iter(prj)
       IN  /\ ret' = [NoRet EXCEPT !.kind = "rows", !.rows = r.rows]
           /\ err' = r.exc
    /\ lastOp' = Op("__iter__", 0, <<>>, NoKwargs)
    /\ errMsg' = <<>>
    /\ UNCHANGED <<fs, prj, heap, proc, exited>>

\* len(prj)
Length ==
    /\ Ready
    /\ ret' = [NoRet EXCEPT !.kind = "int", !.n = len(prj)]
    /\ lastOp' = Op("__len__", 0, <<>>, NoKwargs)
    /\ err' = ""
    /\ errMsg' = <<>>
    /\ UNCHANGED <<fs, prj, heap, proc, exited>>

\* prj[index]
GetItem ==
    /\ Ready
    /\ \E index \in 0..1 :
          LET r == getitem(prj, index)
          IN  /\ ret' = [NoRet EXCEPT !.kind = "row", !.rows = r.rows]
              /\ err' = r.exc
              /\ lastOp' = Op("__getitem__", index, <<>>, NoKwargs)
    /\ errMsg' = <<>>
    /\ UNCHANGED <<fs, prj, heap, proc, exited>>

\* the read of a derived list has ended with r
DerivedRead(r, name) ==
    /\ ret' = [NoRet EXCEPT !.kind = "attr", !.val = r.val]
    /\ err' = r.exc
    /\ lastOp' = Op(name, 0, <<>>, NoKwargs)

\* prj.subjects, prj.sessions, prj.dtypes, prj.pipelines, prj.steps, prj.results
ReadDerived ==
    /\ Ready
    /\ \E name \in DerivedNames : DerivedRead(getattr_derived(prj, name), name)
    /\ errMsg' = <<>>
    /\ UNCHANGED <<fs, prj, heap, proc, exited>>

\* a call on the Process has ended with r: the Project's world, the tree and
\* the path or the Process it gives
StepEnded(r, op) ==
    /\ Ended(r.w, op, [NoRet EXCEPT !.kind = "path", !.path = r.path])
    /\ fs' = r.tree

ProcessMade(r, op) ==
    /\ Ended(r.w, op, NoRet)
    /\ fs' = r.tree
    /\ proc' = r.proc

\* proc = Process(prj, pipeline)
NewProcess ==
    /\ Ready
    /\ \E pr \in ParseOutcomes(fs), pipeline \in Pipelines :
          ProcessMade(new_process(prj, heap, fs, pipeline, pr),
                      Op("Process", 0, <<pipeline>>, NoKwargs))

\* proc.init_step(stepname)
InitStep ==
    /\ Ready
    /\ proc.made
    /\ \E pr \in ParseOutcomes(fs), stepname \in StepNames,
          ls \in ListDirOrders(fs, ProcessAsPrjobj(proc)) :
          StepEnded(init_step(proc, prj, heap, fs, stepname, ls, pr),
                    Op("init_step", 0, <<stepname>>, NoKwargs))
    /\ UNCHANGED proc

\* proc.final_step(title)
FinalStep ==
    /\ Ready
    /\ proc.made
    /\ \E pr \in ParseOutcomes(fs), title \in StepNames :
          StepEnded(final_step(proc, prj, heap, fs, title, pr),
                    Op("final_step", 0, <<title>>, NoKwargs))
    /\ UNCHANGED proc

Next ==
    \/ SetDataclass
    \/ ResetFilters
    \/ ScanPrj
    \/ SetExt
    \/ SetFilters
    \/ Query
    \/ Iterate
    \/ Length
    \/ GetItem
    \/ ReadDerived

Spec == Init /\ [][Next]_vars

(***************************************************************************)
(* The Process on a Project: the constructor, init_step and final_step,    *)
(* with the calls on the Project that change what they find.               *)
(***************************************************************************)
NextProcess ==
    \/ NewProcess
    \/ InitStep
    \/ FinalStep
    \/ SetDataclass
    \/ ScanPrj
    \/ SetFilters

SpecProcess == Init /\ [][NextProcess]_vars

(***************************************************************************)
(* get_step_name on its own: the lines of init_step, run with an object    *)
(* that has the attributes get_step_name reads (path, ds_type, pipeline),  *)
(* on a pipeline folder that starts without step folders.                  *)
(***************************************************************************)
\* an object with the attributes get_step_name reads
StepPrjobj(p) ==
    [attrs |-> {"path", "ds_type", "pipeline"}, path |-> PrjPath,
     pipeline |-> p.pipeline_]

\* the step folders of the Process's pipeline
StepFolders(tree, p) == SubDirs(tree, PathJoin(<<ds_type[2], p.pipeline_>>))

\* the trees without any pipeline folder, with the folder of pipeline P made
PipelineTrees ==
    {mkdir(Tree(files), <<PathJoin(<<ds_type[2], sP>>)>>) :
        files \in {EmptyFiles, MultiFiles}}

InitSteps ==
    /\ fs \in PipelineTrees
    /\ \E pr \in ParseOutcomes(fs) : Constructed(init(pr))
    /\ proc = [made |-> TRUE, pipeline_ |-> sP, subjects_ |-> None,
               sessions_ |-> None]
    /\ lastOp = Op("Process", 0, <<sP>>, NoKwargs)
    /\ ret = NoRet

\* steppath = get_step_name(prjobj, stepname), then the mkdir and the scan of
\* init_step; once MaxSteps folders are there, only for names a folder holds
StepFolder ==
    /\ err = ""
    /\ \E pr \in ParseOutcomes(fs), stepname \in StepNames,
          ls \in ListDirOrders(fs, StepPrjobj(proc)) :
          /\ \/ Cardinality(StepFolders(fs, proc)) < MaxSteps
             \/ Len(Matching_sub(ls, stepname)) > 0
          /\ StepEnded(init_step_get(World(prj, heap),
                                  get_step_name(StepPrjobj(proc), stepname, ls),
                                  proc, fs, pr),
                    Op("get_step_name", 0, <<stepname>>, NoKwargs))
    /\ UNCHANGED proc

NextSteps == StepFolder

SpecSteps == InitSteps /\ [][NextSteps]_vars

(***************************************************************************)
(* applying_filters on its own: any table of a data class, cut down to any *)
(* of its rows, under any filter list.                                     *)
(***************************************************************************)
\* the filter lists: each slot None, empty, or holding names of the trees
FilterVectors(idx) ==
    {<<s1, s2, s3, s4, s5, s6>> :
        s1 \in {None, List(<<>>), List(<<sA>>), List(<<sA, sB>>)},
        s2 \in {None, List(<<sS1>>)},
        s3 \in {None, List(<<IF idx = 0 THEN sFunc ELSE sP>>)},
        s4 \in {None, List(<<IF idx = 1 THEN sStep1 ELSE sChk>>)},
        s5 \in {None, List(<<>>), List(<<sMask>>), List(<<<<"f">>, sMask>>),
                List(<<<<"f">>, <<"_">> \o sMask>>)},
        s6 \in {None, List(<<>>), List(<<<<"f">>>>),
                List(<<<<"f">>, <<"_">> \o sMask>>)}}

\* the Project of world w with the rows at the positions K and the slots given
Loaded(w, K, slots) ==
    /\ prj = [w.o EXCEPT !.df.rows = SelectRows(@, K), !.filters = "r0"]
    /\ heap = [NewHeap EXCEPT !["r0"].slots = slots]
    /\ err = w.exc
    /\ errMsg = w.msg
    /\ exited = w.exit

InitApply ==
    /\ fs \in {Tree(SingleFiles), Tree(MultiFiles)}
    /\ \E pr \in ParseOutcomes(fs), idx \in 0..2, K \in SUBSET (1..MaxRows) :
          \E slots \in FilterVectors(idx) :
             Loaded(set_dataclass(init(pr), idx, {}, pr), K, slots)
    /\ proc = NoProc
    /\ lastOp = Op("__init__", 0, <<>>, NoKwargs)
    /\ ret = NoRet

\* applying_filters has returned a, the table before being rows
Applied(a, rows) ==
    /\ prj' = [prj EXCEPT !.df = a.df]
    /\ err' = a.exc
    /\ ret' = [NoRet EXCEPT !.kind = "rows", !.rows = rows]

\* self.__df = self.applying_filters(self.__df)
Apply ==
    /\ err = ""
    /\ Applied(applying_filters(prj, heap, prj.df), prj.df.rows)
    /\ lastOp' = Op("applying_filters", 0, <<>>, NoKwargs)
    /\ UNCHANGED <<fs, heap, proc, errMsg, exited>>

NextApply == Apply

SpecApply == InitApply /\ [][NextApply]_vars

(***************************************************************************)
(* The files of the project moved on disk between two scans, into the      *)
(* layout with a session folder or out of it.                              *)
(***************************************************************************)
\* the number of path parts of a file in the layout without sessions:
\* Data/<Subject>/<DataType>/<file>, <class>/<Pipeline>/<Step>/<Subject>/<file>
SingleLen(f) == IF f[1] = ds_type[1] THEN 4 ELSE 5

\* every file without its session folder
Flattened(files) ==
    {IF Len(f) = SingleLen(f) + 1
     THEN SubSeq(f, 1, IF f[1] = ds_type[1] THEN 2 ELSE 4)
             \o SubSeq(f, IF f[1] = ds_type[1] THEN 4 ELSE 6, Len(f))
     ELSE f : f \in files}

\* every file under a session folder s1
Sessioned(files) ==
    {IF Len(f) = SingleLen(f)
     THEN SubSeq(f, 1, IF f[1] = ds_type[1] THEN 2 ELSE 4) \o <<sS1>>
             \o SubSeq(f, IF f[1] = ds_type[1] THEN 3 ELSE 5, Len(f))
     ELSE f : f \in files}

\* the files are moved; the Project is not told
Relayout ==
    /\ Ready
    /\ \E files \in {Flattened(fs.files), Sessioned(fs.files)} :
          files # fs.files /\ fs' = Tree(files)
    /\ lastOp' = Op("relayout", 0, <<>>, NoKwargs)
    /\ ret' = NoRet
    /\ UNCHANGED <<prj, heap, proc, err, errMsg, exited>>

NextLayout ==
    \/ Relayout
    \/ ScanPrj
    \/ SetDataclass
    \/ ResetFilters

SpecLayout == Init /\ [][NextLayout]_vars

(***************************************************************************)
(* A project in which one name, A, is a subject folder and a data type     *)
(* folder at once.                                                         *)
(***************************************************************************)
OverlapFiles ==
    { <<sData, sA, sA, fF>>, <<sData, sA, sFunc, fT>>,
      <<sData, sB, sA, fF>>, <<sData, sB, sFunc, fF>> }

InitOverlap ==
    /\ fs = Tree(OverlapFiles)
    /\ \E pr \in ParseOutcomes(fs) : Constructed(init(pr))
    /\ proc = NoProc
    /\ lastOp = Op("__init__", 0, <<>>, NoKwargs)
    /\ ret = NoRet

SpecOverlap == InitOverlap /\ [][Next]_vars

(***************************************************************************)
(* Properties of the Project.                                              *)
(***************************************************************************)
NoSlots == <<None, None, None, None, None, None>>

\* the column each of the first four slots is matched against
SlotCols(idx) ==
    <<"Subject", "Session",
      IF idx = 0 THEN "DataType" ELSE "Pipeline",
      IF idx = 1 THEN "Step" ELSE "Result">>

\* the row has, in the column of every populated slot, a value of that slot
RowPasses(r, slots, idx) ==
    \A k \in 1..4 : Truthy(slots[k]) => In(r[SlotCols(idx)[k]], slots[k].v)

\* the rows of base that pass every populated slot, in the order of base
Narrowed(base, slots, idx) ==
    [cols |-> base.cols,
     rows |-> SelectRows(base.rows, {i \in Idx(base.rows) :
                                       RowPasses(base.rows[i], slots, idx)})]

\* the table a scan of the tree gives for the Project's data class and
\* extension filter
BaseTable(pr) == scan_prj(World(prj, heap), pr).o.df

\* the token is in one of the vocabularies set_filters tries
InVocabulary(tok, o) ==
    \/ Truthy(o.subjects) /\ In(tok, o.subjects.v)
    \/ Truthy(o.subjects) /\ ~o.single_session /\ Truthy(o.sessions)
          /\ In(tok, o.sessions.v)
    \/ o.dc_idx = 0 /\ Truthy(o.dtypes) /\ In(tok, o.dtypes.v)
    \/ o.dc_idx # 0 /\ Truthy(o.pipelines) /\ In(tok, o.pipelines.v)
    \/ o.dc_idx = 1 /\ Truthy(o.steps) /\ In(tok, o.steps.v)
    \/ o.dc_idx = 2 /\ Truthy(o.results) /\ In(tok, o.results.v)

\* the tokens of args that are in no vocabulary, in their order
Unmatched(args, o) ==
    PickRows(args, {i \in Idx(args) : ~InVocabulary(args[i], o)}, 1)

\* the rows come in ascending order of Abspath
Ascending(rows) ==
    \A i \in Idx(rows), j \in Idx(rows) :
        i < j => LtStr(rows[i].Abspath, rows[j].Abspath)

\* C1: a query prj(dc_id, *args, **kwargs), with or without options, leaves
\* the Project it is called on as it was: its table, its data class, its
\* derived lists and the six slots of its filter list.
QueryLeavesProject ==
    [][lastOp'.op = "__call__" => prj' = prj /\ heap'["r0"] = heap["r0"]]_vars

\* a query returned a view with its own filter list and a narrower table,
\* from a Project that had filters of its own
QueryNarrowedView ==
    /\ lastOp.op = "__call__"
    /\ ret.kind = "view"
    /\ heap["r0"].slots[1] # None
    /\ heap["r1"].used
    /\ heap["r1"].slots # heap["r0"].slots
    /\ ret.view.df # prj.df

\* C4: after set_filters with positional tokens the table holds exactly the
\* rows of the freshly scanned table that have, in the column of every
\* populated slot, one of the values in that slot's list.
SetFiltersNarrows ==
    (lastOp.op = "set_filters" /\ err = "" /\ lastOp.args # <<>>)
        => \A pr \in ParseOutcomes(fs) :
              prj.df = Narrowed(BaseTable(pr), heap["r0"].slots, prj.dc_idx)

\* set_filters("A") on a project with subjects A and B left the rows of A only
SetFiltersKeptSubjectA ==
    /\ lastOp.op = "set_filters"
    /\ lastOp.args = <<sA>>
    /\ err = ""
    /\ prj.dc_idx = 0
    /\ prj.df.rows # <<>>
    /\ \A i \in Idx(prj.df.rows) : prj.df.rows[i].Subject = sA
    /\ \E pr \in ParseOutcomes(fs) :
          \E i \in Idx(BaseTable(pr).rows) : BaseTable(pr).rows[i].Subject = sB

\* C5 as stated: set_filters with a token in no vocabulary fails with the
\* input error, and the message names exactly the unmatched tokens.
ErrorNamesUnmatchedOnly ==
    (/\ lastOp.op = "set_filters"
     /\ DOMAIN lastOp.kwargs = {}
     /\ Unmatched(lastOp.args, prj) # <<>>)
        => err = "InputValueError" /\ errMsg = Unmatched(lastOp.args, prj)

\* C5: set_filters with a token in no vocabulary fails with the input error,
\* and the message shows the whole positional tuple as the caller gave it, the
\* matched tokens included.
ErrorNamesAllTokens ==
    (/\ lastOp.op = "set_filters"
     /\ DOMAIN lastOp.kwargs = {}
     /\ Unmatched(lastOp.args, prj) # <<>>)
        => err = "InputValueError" /\ errMsg = lastOp.args

\* set_filters("A", "Z") failed, A being a subject and Z no name at all
MixedTokensFailed ==
    /\ lastOp.op = "set_filters"
    /\ lastOp.args = <<sA, sZ>>
    /\ In(sA, prj.subjects.v)
    /\ err = "InputValueError"
    /\ errMsg = <<sA, sZ>>

\* C6: after prj.dataclass = idx with idx in 0..2, every slot of the filter
\* list is None.
DataclassClearsSlots ==
    (lastOp.op = "dataclass" /\ lastOp.idx \in 0..2)
        => heap["r0"].slots = NoSlots

\* the data class was switched on a project with rows
DataclassSwitched ==
    /\ lastOp.op = "dataclass"
    /\ lastOp.idx = 1
    /\ err = ""
    /\ prj.dc_idx = 1
    /\ prj.df.rows # <<>>

\* C7: two scans in a row, the tree, the data class and the extension filter
\* being the same, give the same rows in the same order, ascending in Abspath.
RescanRepeats ==
    [][(lastOp.op = "scan_prj" /\ lastOp'.op = "scan_prj")
          => prj'.df = prj.df /\ Ascending(prj'.df.rows)]_vars

\* a scan gave a table of several rows
ScannedSeveralRows ==
    /\ lastOp.op = "scan_prj"
    /\ err = ""
    /\ Len(prj.df.rows) > 1

\* C8: after reset_filters the slots are all None, applying them changes
\* nothing, and the table is the full scan for the data class and extension
\* filter of the Project.
ResetGivesFullTable ==
    (lastOp.op = "reset_filters" /\ err = "")
        => /\ heap["r0"].slots = NoSlots
           /\ applying_filters(prj, heap, prj.df).df = prj.df
           /\ \A pr \in ParseOutcomes(fs) : prj.df = BaseTable(pr)

\* reset_filters ran on a project with rows
ResetOnRows ==
    /\ lastOp.op = "reset_filters"
    /\ err = ""
    /\ Len(prj.df.rows) > 1

\* C10 as stated: iterating over an empty project gives no pair and raises
\* nothing.
EmptyIterationIsSilent ==
    (lastOp.op = "__iter__" /\ prj.empty_project)
        => ret.rows = <<>> /\ err = ""

\* C10: iterating over an empty project gives no pair and raises EmptyProject,
\* which the caller may catch: the program is not ended.
EmptyIterationRaises ==
    (lastOp.op = "__iter__" /\ prj.empty_project)
        => ret.rows = <<>> /\ err = "EmptyProject" /\ ~exited

\* an empty project was iterated over
EmptyIterated ==
    /\ lastOp.op = "__iter__"
    /\ prj.empty_project
    /\ prj.df.rows = <<>>

\* C9: applying a filter list to a table it was applied to changes nothing:
\* apply(F, apply(F, T)) = apply(F, T).
ApplyIdempotent ==
    (lastOp.op = "applying_filters" /\ err = "")
        => /\ applying_filters(prj, heap, prj.df).exc = ""
           /\ applying_filters(prj, heap, prj.df).df = prj.df

\* a filter list with a file tag and an ignore tag dropped rows and kept rows
ApplyDroppedRows ==
    /\ lastOp.op = "applying_filters"
    /\ err = ""
    /\ heap["r0"].slots[5] # None
    /\ heap["r0"].slots[6] # None
    /\ prj.df.rows # <<>>
    /\ Len(prj.df.rows) < Len(ret.rows)

(***************************************************************************)
(* Properties of the Process and of the step folders.                      *)
(***************************************************************************)
\* the number a step folder's name starts with
DigitVal(c) == CHOOSE d \in 0..9 : Digit(d) = <<c>>
Num(name) == 100 * DigitVal(name[1]) + 10 * DigitVal(name[2]) + DigitVal(name[3])

\* the path init_step is to give for a first step of this name
FirstStepPath(p, stepname) ==
    PathJoin(<<ds_type[2], p.pipeline_, <<"0", "0", "1", "_">> \o stepname>>)

\* C2 as stated: on a pipeline without step folders init_step(name) makes
\* the folder 001_<name> and returns its path; a second init_step(name)
\* returns the same path and makes no folder.
InitStepIdempotent ==
    [][(lastOp'.op = "init_step" /\ proc.pipeline_ # <<>>)
          => /\ err' = ""
             /\ StepFolders(fs, proc) = {}
                   => /\ ret'.path = FirstStepPath(proc, lastOp'.args[1])
                      /\ ret'.path \in fs'.dirs
             /\ (lastOp.op = "init_step" /\ lastOp.args = lastOp'.args)
                   => /\ ret'.path = ret.path
                      /\ fs'.dirs = fs.dirs]_vars

EmptyProjectReads ==
    [][(lastOp.op = "__init__" /\ FilesUnder(fs, 0) = {})
          => /\ prj.empty_project /\ err = ""
             /\ lastOp'.op = "subjects" => err' = "" /\ ~Truthy(ret'.val)
             /\ lastOp'.op = "__len__" => err' = "" /\ ret'.n = 0
             /\ lastOp'.op = "__getitem__" => err' = "" /\ ret'.rows = <<>>]_vars

\* the list __update is to leave for a column of the table
Expected(o, col) ==
    IF o.df.rows # <<>> /\ col \in o.df.cols THEN List(Uniq(o.df, col)) ELSE None

\* every derived list is the one __update gives on the current table
DerivedFresh(o) ==
    /\ o.subjects = Expected(o, "Subject")
    /\ o.sessions = Expected(o, "Session")
    /\ o.dtypes = Expected(o, "DataType")
    /\ o.pipelines = Expected(o, "Pipeline")
    /\ o.steps = Expected(o, "Step")
    /\ o.results = Expected(o, "Result")

\* C12 as stated: in every state each derived list is the sorted list of
\* the distinct values of its column in the current table, and None when
\* the table has no rows or no such column.
DerivedSetsFresh == DerivedFresh(prj)

\* C13 as stated: on a project as constructed, set_filters(file_tag=[T])
\* leaves the rows whose Filename contains T, set_filters(ignore=[T]) the
\* rows whose Filename does not contain T, and both options together no
\* row; none of the three calls raises.
TagOptionsSelect ==
    [][(/\ lastOp.op = "__init__"
        /\ lastOp'.op = "set_filters" /\ lastOp'.args = <<>>
        /\ DOMAIN lastOp'.kwargs # {}
        /\ DOMAIN lastOp'.kwargs \subseteq {"file_tag", "ignore"}
        /\ \A k \in DOMAIN lastOp'.kwargs : lastOp'.kwargs[k] = ListVal(<<sMask>>))
          => /\ err' = ""
             /\ prj'.df.rows = SelectRows(prj.df.rows,
                    {i \in Idx(prj.df.rows) :
                        /\ "file_tag" \in DOMAIN lastOp'.kwargs
                              => Contains(prj.df.rows[i].Filename, sMask)
                        /\ "ignore" \in DOMAIN lastOp'.kwargs
                              => ~Contains(prj.df.rows[i].Filename, sMask)})]_vars

\* keep=True is among the options of the call
KeepGiven(op) == "keep" \in DOMAIN op.kwargs /\ op.kwargs.keep.b

\* the values a call names for slot k: positional tokens, or tags
NamedFor(op, k) ==
    IF k = 5 /\ "file_tag" \in DOMAIN op.kwargs THEN op.kwargs.file_tag.v
    ELSE IF k = 6 /\ "ignore" \in DOMAIN op.kwargs THEN op.kwargs.ignore.v
    ELSE IF k \in 1..4 THEN op.args
    ELSE <<>>

\* C16 as stated: set_filters with keep=True raises nothing and every slot
\* that held values still holds them, in front of what the call adds; after
\* set_filters without keep=True every value a slot holds was named by this
\* call.
KeepPreservesSlots ==
    [][lastOp'.op = "set_filters"
          => IF KeepGiven(lastOp')
             THEN /\ err' = ""
                  /\ \A k \in 1..6 : Truthy(Filters(prj, heap)[k])
                        => /\ Truthy(Filters(prj', heap')[k])
                           /\ Len(Filters(prj', heap')[k].v) >= Len(Filters(prj, heap)[k].v)
                           /\ SubSeq(Filters(prj', heap')[k].v, 1, Len(Filters(prj, heap)[k].v))
                                 = Filters(prj, heap)[k].v
             ELSE \A k \in 1..6 : Truthy(Filters(prj', heap')[k])
                        => \A i \in Idx(Filters(prj', heap')[k].v) :
                              In(Filters(prj', heap')[k].v[i], NamedFor(lastOp', k))]_vars

\* the tags slot k holds when the call starts and keeps
KeptTags(op, k) ==
    IF KeepGiven(op) /\ Truthy(Filters(prj, heap)[k]) THEN Filters(prj, heap)[k].v
    ELSE <<>>

\* C17 as stated: a set_filters call with file_tag or ignore raises nothing
\* and leaves in slot 5 (file_tag) or slot 6 (ignore) the tags the slot kept
\* followed by the tags of the call.
TagOptionsAppend ==
    [][(lastOp'.op = "set_filters"
           /\ DOMAIN lastOp'.kwargs \cap {"file_tag", "ignore"} # {})
          => /\ err' = ""
             /\ "file_tag" \in DOMAIN lastOp'.kwargs
                   => Filters(prj', heap')[5]
                         = List(KeptTags(lastOp', 5) \o lastOp'.kwargs.file_tag.v)
             /\ "ignore" \in DOMAIN lastOp'.kwargs
                   => Filters(prj', heap')[6]
                         = List(KeptTags(lastOp', 6) \o lastOp'.kwargs.ignore.v)]_vars

\* the folders under Results/<pipeline>
ResultFolders(tree, p) == SubDirs(tree, PathJoin(<<ds_type[3], p.pipeline_>>))

\* C14 as stated: on a named pipeline final_step(name) raises nothing; when
\* a folder under Results/<pipeline> has name as a substring its path is
\* returned and no folder is made, otherwise the folder <seq>_<name> is made
\* and returned, seq being the number of folders there plus one, zero-padded
\* to three digits.
FinalStepNumbers ==
    [][(lastOp'.op = "final_step" /\ proc.pipeline_ # <<>>)
          => /\ err' = ""
             /\ IF \E d \in ResultFolders(fs, proc) : Contains(d, lastOp'.args[1])
                THEN /\ \E d \in ResultFolders(fs, proc) :
                           /\ Contains(d, lastOp'.args[1])
                           /\ ret'.path = PathJoin(<<ds_type[3], proc.pipeline_, d>>)
                     /\ fs'.dirs = fs.dirs
                ELSE /\ ret'.path = PathJoin(<<ds_type[3], proc.pipeline_,
                            Zfill(Str(Cardinality(ResultFolders(fs, proc)) + 1), 3)
                               \o <<"_">> \o lastOp'.args[1]>>)
                     /\ ret'.path \in fs'.dirs]_vars

\* the steps list after prj.dataclass = 1 on the object and tree given
StepsVocabulary(o, h, tree) ==
    {set_dataclass(World(o, h), 1, {}, pr).o.steps : pr \in ParseOutcomes(tree)}

\* C15 as stated: on a named pipeline init_step(name) raises nothing and
\* returns a folder that exists, and with data class 1 selected afterwards
\* the name of that folder is in the steps list, whether or not the folder
\* holds files.
InitStepVisible ==
    [][(lastOp'.op = "init_step" /\ proc.pipeline_ # <<>>)
          => /\ err' = ""
             /\ ret'.path \in fs'.dirs
             /\ \A steps \in StepsVocabulary(prj', heap', fs') :
                   Truthy(steps) /\ In(ret'.path[3], steps.v)]_vars

\* C20 as stated: init_step and final_step on a Process whose pipeline has
\* no name raise PipelineNotSet and make no folder.
NoPipelineRefused ==
    [][(lastOp'.op \in {"init_step", "final_step"} /\ proc.pipeline_ = <<>>)
          => /\ err' = "PipelineNotSet"
             /\ fs'.dirs = fs.dirs]_vars

\* the table scan_prj gives when the extension filter is the default
DefaultExtTable(pr) ==
    scan_prj([World(prj, heap) EXCEPT !.o.ext_filter = List(img_ext)], pr).o.df

\* C18 as stated: after reset_filters() the six slots are None, the
\* extension filter is the default list of image extensions, and the table
\* is the one a scan with that default gives.
ResetRestoresExt ==
    (lastOp.op = "reset_filters" /\ err = "")
        => /\ Filters(prj, heap) = NoSlots
           /\ prj.ext_filter = List(img_ext)
           /\ \E pr \in ParseOutcomes(fs) : prj.df = DefaultExtTable(pr)

\* C19: prj.dataclass = idx with idx outside 0..2 ends in
\* InputDataclassError and leaves the selector, the slots, the table and
\* the derived lists as they were; with idx in 0..2 it raises nothing, the
\* selector is idx, the table is the one a scan gives and the derived lists
\* are those of that table.
DataclassChecked ==
    [][lastOp'.op = "dataclass"
          => IF lastOp'.idx \notin 0..2
             THEN /\ err' = "InputDataclassError"
                  /\ prj' = prj
                  /\ heap' = heap
             ELSE /\ err' = ""
                  /\ prj'.dc_idx = lastOp'.idx
                  /\ \E pr \in ParseOutcomes(fs) :
                        prj'.df = scan_prj(World(prj', heap'), pr).o.df
                  /\ DerivedFresh(prj')]_vars

\* a data class outside 0..2 was refused on a project that has rows and a
\* subject in slot 1
DataclassRefused ==
    /\ lastOp.op = "dataclass" /\ lastOp.idx = 3
    /\ err = "InputDataclassError"
    /\ Len(prj.df.rows) > 0
    /\ Truthy(Filters(prj, heap)[1])

\* the errors set_filters, the dataclass setter and the ext setter raise
\* for a wrong input
InputErrors == {"InputDataclassError", "InputValueError", "InputTypeError",
                "KeywordError"}

\* C21 as stated: an input error never ends the program, so the Project
\* takes further calls after it.
InputErrorsRecoverable == err \in InputErrors => ~exited

\* the folder of a pipeline under Processing
PipelineFolder(pipeline) == PathJoin(<<ds_type[2], pipeline>>)

\* C22: Process(prj, P) with a pipeline name P raises nothing; when it
\* returns the folder Processing/P exists, no other folder or file was made
\* or removed, the six filter slots of the Project are None and its table is
\* the one a scan gives.
ProcessPrepares ==
    [][(lastOp'.op = "Process" /\ lastOp'.args[1] # <<>>)
          => /\ err' = ""
             /\ proc'.made /\ proc'.pipeline_ = lastOp'.args[1]
             /\ fs'.dirs = fs.dirs \cup {PipelineFolder(lastOp'.args[1])}
             /\ fs'.files = fs.files
             /\ Filters(prj', heap') = NoSlots
             /\ \E pr \in ParseOutcomes(fs') :
                   prj'.df = scan_prj(World(prj', heap'), pr).o.df]_vars

\* a Process was made on a project without any file under Processing, and
\* the folder of its pipeline is there
PipelineFolderMade ==
    /\ lastOp.op = "Process" /\ proc.made /\ proc.pipeline_ # <<>>
    /\ FilesUnder(fs, 1) = {}
    /\ Len(prj.df.rows) > 1
    /\ PipelineFolder(proc.pipeline_) \in fs.dirs

\* C23 as stated: each of the six slots is None or a list that is not
\* empty.
SlotsNoneOrNonEmpty ==
    \A k \in 1..6 : Filters(prj, heap)[k] = None \/ Truthy(Filters(prj, heap)[k])

\* C23: each of the six slots is None or a list, which may be empty; after
\* a set_filters call with positional tokens and no option that raised
\* nothing, each of the first four slots whose column the scanned table has
\* is the list of the tokens of the call that the column holds, in the order
\* of the call: the empty list when it holds none of them.
SlotsNoneOrList ==
    /\ \A k \in 1..6 : Filters(prj, heap)[k].st \in {"none", "list"}
    /\ (lastOp.op = "set_filters" /\ lastOp.args # <<>>
            /\ DOMAIN lastOp.kwargs = {} /\ err = "")
          => \A pr \in ParseOutcomes(fs), k \in 1..4 :
                SlotCols(prj.dc_idx)[k] \in BaseTable(pr).cols
                   => Filters(prj, heap)[k]
                         = List(Matching(lastOp.args,
                                  Uniq(BaseTable(pr), SlotCols(prj.dc_idx)[k])))

\* set_filters('func') left the subject slot an empty list, and the table
\* has rows of both subjects
EmptyListSlot ==
    /\ lastOp.op = "set_filters" /\ lastOp.args = <<sFunc>> /\ err = ""
    /\ Filters(prj, heap)[1] = List(<<>>)
    /\ \E i \in Idx(prj.df.rows) : prj.df.rows[i].Subject = sA
    /\ \E i \in Idx(prj.df.rows) : prj.df.rows[i].Subject = sB

\* the rows whose Filename has the include tags, joined by sep, as a
\* substring and does not have the exclude tags, joined by sep, as one
TagRows(rows, include, exclude, sep) ==
    SelectRows(rows, {i \in Idx(rows) :
        /\ include # None => Contains(rows[i].Filename, Join(include.v, sep))
        /\ exclude # None => ~Contains(rows[i].Filename, Join(exclude.v, sep))})

\* applying_filters ran with nothing in the first four slots
OnlyTagsApplied ==
    /\ lastOp.op = "applying_filters" /\ err = ""
    /\ \A k \in 1..4 : ~Truthy(Filters(prj, heap)[k])

InitStepReuses ==
    [][(/\ lastOp'.op = "init_step" /\ proc.pipeline_ # <<>>
        /\ \E d \in StepFolders(fs, proc) : Contains(d, lastOp'.args[1]))
          => /\ err' = ""
             /\ \E d \in StepFolders(fs, proc) :
                   /\ Contains(d, lastOp'.args[1])
                   /\ ret'.path = PathJoin(<<ds_type[2], proc.pipeline_, d>>)
             /\ StepFolders(fs', proc) = StepFolders(fs, proc)
             /\ fs'.dirs = fs.dirs]_vars

\* name is in the folder name d only through its first four characters,
\* the number and the underscore
InPrefixOnly(d, name) ==
    Contains(d, name) /\ ~Contains(SubSeq(d, 5, Len(d)), name)

\* C30 as stated: on a named pipeline with a step folder that has name as
\* a substring only through its "NNN_" prefix, init_step(name) raises
\* nothing, makes no folder and returns a step folder that was there, one
\* made for another name.
InitStepReusesByPrefix ==
    [][(/\ lastOp'.op = "init_step" /\ proc.pipeline_ # <<>>
        /\ \E d \in StepFolders(fs, proc) : InPrefixOnly(d, lastOp'.args[1]))
          => /\ err' = ""
             /\ fs'.dirs = fs.dirs
             /\ ret'.path \in fs.dirs
             /\ ret'.path[3] \in StepFolders(fs, proc)]_vars

\* the table a scan gives a Project that has no table and no filter yet
FreshTable(pr) ==
    scan_prj(World([prj EXCEPT !.df = EmptyDF],
                   [heap EXCEPT ![prj.filters].slots = NoSlots]), pr).o.df

\* C26: scan_prj raises nothing, leaves the six slots, the data class and
\* the extension filter as they were, and the table it leaves is the one a
\* scan gives whatever the table and the slots were before: no row is kept
\* from the old table and no slot is applied.
RescanReplacesTable ==
    [][lastOp'.op = "scan_prj"
          => /\ err' = ""
             /\ Filters(prj', heap') = Filters(prj, heap)
             /\ prj'.dc_idx = prj.dc_idx
             /\ prj'.ext_filter = prj.ext_filter
             /\ \E pr \in ParseOutcomes(fs) : prj'.df = FreshTable(pr)]_vars

\* after a scan the subject slot holds A alone and the table has a row of
\* subject B
RescanShowsExcludedRow ==
    /\ lastOp.op = "scan_prj" /\ err = ""
    /\ Filters(prj, heap)[1] = List(<<sA>>)
    /\ \E i \in Idx(prj.df.rows) : prj.df.rows[i].Subject = sB

\* the call scans the tree: scan_prj, reset_filters, or the dataclass
\* setter with an index it takes
Scans(op) ==
    op.op \in {"scan_prj", "reset_filters"} \/ (op.op = "dataclass" /\ op.idx \in 0..2)

\* C27: a scan raises nothing, and when the data class folder holds files
\* laid out with or without a session folder, single_session after the scan
\* is true when no file has the session folder and false when one has,
\* whatever it was before the scan.
SessionModeFollowsTree ==
    [][Scans(lastOp')
          => /\ err' = ""
             /\ FilesUnder(fs', prj'.dc_idx) # {}
                   => /\ prj'.single_session
                           = (\A f \in FilesUnder(fs', prj'.dc_idx) :
                                 Len(f) = SingleLen(f))
                      /\ ~prj'.single_session
                           = (\E f \in FilesUnder(fs', prj'.dc_idx) :
                                 Len(f) = SingleLen(f) + 1)]_vars

\* the Project was made on the files laid out with sessions; they were
\* moved out of their session folders, and a scan has found the layout
\* without sessions
SessionModeFlipped ==
    /\ lastOp.op = "scan_prj" /\ err = ""
    /\ fs.files = Flattened(MultiFiles) /\ fs.files # SingleFiles
    /\ prj.dc_idx = 0
    /\ prj.single_session
    /\ Len(prj.df.rows) = 3

\* every row of the table is a row of base, the rows ascend in Abspath and
\* no two of them share an Abspath
RowsWithin(rows, base) ==
    /\ \A i \in Idx(rows) : In(rows[i], base.rows)
    /\ Ascending(rows)
    /\ \A i \in Idx(rows), j \in Idx(rows) :
          rows[i].Abspath = rows[j].Abspath => i = j

\* C28 as stated: in every state the rows of the table are rows of the
\* table a scan would give for the data class and the extension filter the
\* Project has now, in ascending order of Abspath, no Abspath twice.
TableWithinScan ==
    \A pr \in ParseOutcomes(fs) : RowsWithin(prj.df.rows, BaseTable(pr))

\* the call builds or narrows the table
Rebuilds(op) ==
    op.op \in {"dataclass", "reset_filters", "scan_prj", "set_filters"}

\* C28: after construction, and after every dataclass, reset_filters,
\* scan_prj or set_filters call that raised nothing, the rows of the table
\* are rows of the table a scan would give for the data class and the
\* extension filter the Project has then, in ascending order of Abspath, no
\* Abspath twice; the ext setter leaves the table as it is.
TableWithinScanWhenBuilt ==
    /\ lastOp.op = "__init__" => TableWithinScan
    /\ [][/\ (Rebuilds(lastOp') /\ err' = "")
               => \A pr \in ParseOutcomes(fs') :
                     RowsWithin(prj'.df.rows,
                                scan_prj(World(prj', heap'), pr).o.df)
          /\ lastOp'.op = "ext" => prj'.df = prj.df]_vars

\* set_filters left two of the three rows a scan gives
FilteredTwoOfThree ==
    /\ lastOp.op = "set_filters" /\ err = ""
    /\ Len(prj.df.rows) = 2
    /\ \E pr \in ParseOutcomes(fs) : Len(BaseTable(pr).rows) = 3

\* column k of the scanned table base holds the token
InColumn(tok, base, k) ==
    /\ SlotCols(prj.dc_idx)[k] \in base.cols
    /\ In(tok, Uniq(base, SlotCols(prj.dc_idx)[k]))

\* C29: a set_filters call without options whose tokens each are in some
\* column of the scanned table raises nothing, however many columns hold
\* the same token; when it raised nothing every token is in the slot of
\* every column that holds it, and the table is the scanned table cut down
\* to the rows that pass all the slots.
TokenInEveryMatchingSlot ==
    (lastOp.op = "set_filters" /\ lastOp.args # <<>> /\ DOMAIN lastOp.kwargs = {})
        => \A pr \in ParseOutcomes(fs) :
              /\ (\A i \in Idx(lastOp.args) :
                      \E k \in 1..4 : InColumn(lastOp.args[i], BaseTable(pr), k))
                    => err = ""
              /\ err = ""
                    => /\ \A i \in Idx(lastOp.args), k \in 1..4 :
                             InColumn(lastOp.args[i], BaseTable(pr), k)
                                => In(lastOp.args[i], Filters(prj, heap)[k].v)
                       /\ prj.df = Narrowed(BaseTable(pr), Filters(prj, heap),
                                            prj.dc_idx)

\* set_filters('A') put A in the subject slot and in the data type slot,
\* and left the one row of subject A and data type A
TokenInTwoSlots ==
    /\ lastOp.op = "set_filters" /\ lastOp.args = <<sA>> /\ err = ""
    /\ Filters(prj, heap)[1] = List(<<sA>>)
    /\ Filters(prj, heap)[3] = List(<<sA>>)
    /\ Len(prj.df.rows) = 1
    /\ prj.df.rows[1].Subject = sA /\ prj.df.rows[1].DataType = sA

====
